---------------------------- MODULE ClientWriter ----------------------------
(***************************************************************************)
(* A client-streaming method: WriterMethod.qml on the QML thread, and      *)
(* grpc::qml::WriterMethod with its WriterCallData objects, shared by the  *)
(* QML thread (write, writesDone, timeout, set_timeout) and the channel's  *)
(* IO thread (process).                                                    *)
(*                                                                         *)
(* A QML operation is two steps, because the code takes calls_mutex_ only  *)
(* to look a WriterCallData up and uses the pointer after releasing it:    *)
(* BeginXxx is the JS guard and the lookup, EndXxx is the member function. *)
(* process() is one step (it holds mutex_ throughout), except at FINISH,   *)
(* where the signals, the removal from calls_ and the delete are visible   *)
(* to the other thread one by one.                                         *)
(*                                                                         *)
(* gRPC is external: an operation handed to a call completes once, at any  *)
(* later time, with ok true or false, and the completion carries only the  *)
(* call, so `outstanding' counts operations without naming them.           *)
(***************************************************************************)
EXTENDS ClientCallbacks

CONSTANTS
  Calls,      \* the WriterCallData objects there is memory for (a bound)
  NoCall,     \* a null WriterCallData pointer
  Messages,   \* the request messages the program sends
  Null,       \* the null request that stands for writesDone in requests_
  MaxOps      \* bound: the operations the QML program performs

ASSUME WriterAssumption ==
  /\ NoCall \notin Calls
  /\ Null \notin Messages
  /\ MaxOps \in Nat

VARIABLES
  calls,        \* WriterMethod::calls_
  memory,       \* of each object: "none" until new, "live", "freed" by delete
  tagOf,        \* WriterCallData::tag_
  status,       \* status_
  requests,     \* requests_
  outstanding,  \* operations gRPC has not completed yet
  refused,      \* gRPC could not start the call
  qml,          \* what the QML thread does between lookup and use
  io,           \* where the IO thread is inside process() at FINISH
  ops,          \* operations performed
  accepted,     \* history: everything write() and writesDone() took, in order
  handed        \* history: everything handed to gRPC, in order

callVars == <<calls, memory, tagOf, status, requests, outstanding, refused,
              accepted, handed>>
vars == <<callbackVars, callVars, qml, io, ops>>

Statuses == {"INIT", "FROZEN", "WRITE", "DONE", "FINISH"}
QmlOps == {"write", "writesDone", "timeout", "set_timeout"}
Requests == Messages \cup {Null}

Idle == [op |-> "idle", tag |-> 0, call |-> NoCall, request |-> Null]
AtNext == [pc |-> "next", call |-> NoCall]

TypeOK ==
  /\ CallbackTypeOK
  /\ calls \in [Tags -> Calls \cup {NoCall}]
  /\ memory \in [Calls -> {"none", "live", "freed"}]
  /\ tagOf \in [Calls -> Tags \cup {0}]
  /\ status \in [Calls -> Statuses]
  /\ requests \in [Calls -> Seq(Requests)]
  /\ outstanding \in [Calls -> Nat]
  /\ refused \in [Calls -> BOOLEAN]
  /\ qml = Idle \/ qml \in [op : QmlOps, tag : Tags, call : Calls, request : Requests]
  /\ io = AtNext \/ io \in [pc : {"erase", "delete"}, call : Calls]
  /\ ops \in 0..MaxOps
  /\ accepted \in [Calls -> Seq(Requests)]
  /\ handed \in [Calls -> Seq(Requests)]

Init ==
  /\ CallbackInit
  /\ calls = [t \in Tags |-> NoCall]
  /\ memory = [c \in Calls |-> "none"]
  /\ tagOf = [c \in Calls |-> 0]
  /\ status = [c \in Calls |-> "INIT"]
  /\ requests = [c \in Calls |-> <<>>]
  /\ outstanding = [c \in Calls |-> 0]
  /\ refused = [c \in Calls |-> FALSE]
  /\ qml = Idle
  /\ io = AtNext
  /\ ops = 0
  /\ accepted = [c \in Calls |-> <<>>]
  /\ handed = [c \in Calls |-> <<>>]

-----------------------------------------------------------------------------
(* Handing an operation to gRPC, with the status the code sets beside it.  *)

\* writer_.Write(r), or writer_.WritesDone() for Null.
Hand(c, r) ==
  /\ status' = [status EXCEPT ![c] = IF r = Null THEN "DONE" ELSE "WRITE"]
  /\ handed' = [handed EXCEPT ![c] = Append(@, r)]

\* writer_.Finish(), in process().
FinishCall(c) ==
  /\ status' = [status EXCEPT ![c] = "FINISH"]
  /\ UNCHANGED <<outstanding, requests, handed>>

\* Slip: an empty queue leaves the status as it is.
handleQueuedRequests_NoFreeze(c) ==
  \/ /\ requests[c] = <<>>
     /\ outstanding' = [outstanding EXCEPT ![c] = @ - 1]
     /\ UNCHANGED <<status, requests, handed>>
  \/ /\ requests[c] # <<>>
     /\ requests' = [requests EXCEPT ![c] = Tail(@)]
     /\ Hand(c, Head(requests[c]))
     /\ UNCHANGED outstanding

handleQueuedRequests(c) ==
  \/ /\ requests[c] = <<>>
     /\ status' = [status EXCEPT ![c] = "FROZEN"]
     /\ outstanding' = [outstanding EXCEPT ![c] = @ - 1]
     /\ UNCHANGED <<requests, handed>>
  \/ /\ requests[c] # <<>>
     /\ requests' = [requests EXCEPT ![c] = Tail(@)]
     /\ Hand(c, Head(requests[c]))
     /\ UNCHANGED outstanding

-----------------------------------------------------------------------------
(* QML thread: JS guard and lookup.                                        *)

MayAct == qml = Idle /\ ops < MaxOps

\* Calling call(): no C++ object yet.
Call ==
  /\ qml = Idle
  /\ NewTag
  /\ UNCHANGED <<callVars, qml, io, ops>>

\* ensureCallData: the call found, or a new one, whose constructor starts it.
ensureCallData(t, op, r) ==
  \/ /\ calls[t] # NoCall
     /\ qml' = [op |-> op, tag |-> t, call |-> calls[t], request |-> r]
     /\ UNCHANGED callVars
  \/ /\ calls[t] = NoCall
     /\ \E c \in Calls :
          /\ memory[c] = "none"
          /\ memory' = [memory EXCEPT ![c] = "live"]
          /\ calls' = [calls EXCEPT ![t] = c]
          /\ tagOf' = [tagOf EXCEPT ![c] = t]
          /\ outstanding' = [outstanding EXCEPT ![c] = 1]
          /\ qml' = [op |-> op, tag |-> t, call |-> c, request |-> r]
     /\ UNCHANGED <<status, requests, refused, accepted, handed>>

\* p.write(): without a callback it returns false at once.
BeginWrite(t, m) ==
  /\ MayAct
  /\ t \in callbacks
  /\ ensureCallData(t, "write", m)
  /\ ops' = ops + 1
  /\ UNCHANGED <<callbackVars, io>>

\* p.end(): WriterMethod::writesDone fails when no call exists for the tag.
BeginEnd(t) ==
  /\ MayAct
  /\ t \in callbacks
  /\ ops' = ops + 1
  /\ \/ /\ calls[t] # NoCall
        /\ qml' = [op |-> "writesDone", tag |-> t, call |-> calls[t], request |-> Null]
        /\ UNCHANGED callbackVars
     \/ /\ calls[t] = NoCall
        /\ Refused(t)
        /\ UNCHANGED qml
  /\ UNCHANGED <<callVars, io>>

\* The `timeout' property of the object call() returned: neither direction
\* looks at the callbacks, and writing it creates a call like write() does.
BeginTimeout(t) ==
  /\ MayAct
  /\ t <= lastTag
  /\ calls[t] # NoCall
  /\ qml' = [op |-> "timeout", tag |-> t, call |-> calls[t], request |-> Null]
  /\ ops' = ops + 1
  /\ UNCHANGED <<callbackVars, callVars, io>>

BeginSetTimeout(t) ==
  /\ MayAct
  /\ t <= lastTag
  /\ ensureCallData(t, "set_timeout", Null)
  /\ ops' = ops + 1
  /\ UNCHANGED <<callbackVars, io>>

-----------------------------------------------------------------------------
(* QML thread: the member function on the pointer looked up.               *)

\* mutex_ is free, unless the IO thread is inside process() of this call.
Unlocked(c) == ~(io.pc = "erase" /\ io.call = c)

Using(op) == qml.op = op /\ Unlocked(qml.call)

\* The object was deleted between lookup and use: the result is arbitrary.
Dangling == qml # Idle /\ memory[qml.call] = "freed"

Return(op, result) ==
  /\ qml' = Idle
  /\ IF result THEN UNCHANGED callbackVars ELSE Refused(qml.tag)
  /\ UNCHANGED <<calls, memory, tagOf, refused, io, ops>>

\* WriterCallData::write and writesDone differ only in the request.
EndWrite ==
  LET c == qml.call
      r == qml.request
  IN /\ \E op \in {"write", "writesDone"} : Using(op)
     /\ \/ /\ Dangling
           /\ \E result \in BOOLEAN : Return(qml.op, result)
           /\ UNCHANGED <<status, requests, outstanding, accepted, handed>>
        \/ /\ ~Dangling
           /\ status[c] \in {"DONE", "FINISH"}
           /\ Return(qml.op, FALSE)
           /\ UNCHANGED <<status, requests, outstanding, accepted, handed>>
        \/ /\ ~Dangling
           /\ status[c] = "FROZEN"
           /\ Hand(c, r)
           /\ outstanding' = [outstanding EXCEPT ![c] = @ + 1]
           /\ accepted' = [accepted EXCEPT ![c] = Append(@, r)]
           /\ Return(qml.op, TRUE)
           /\ UNCHANGED requests
        \/ /\ ~Dangling
           /\ status[c] \in {"INIT", "WRITE"}
           /\ requests' = [requests EXCEPT ![c] = Append(@, r)]
           /\ accepted' = [accepted EXCEPT ![c] = Append(@, r)]
           /\ Return(qml.op, TRUE)
           /\ UNCHANGED <<status, outstanding, handed>>

\* The deadline set is that of a call already started: nothing else changes.
EndTimeout ==
  /\ qml.op \in {"timeout", "set_timeout"}
  /\ qml' = Idle
  /\ UNCHANGED <<callbackVars, callVars, io, ops>>

-----------------------------------------------------------------------------
(* IO thread: a completion for call c, with `bad' iff ok is false or the   *)
(* status of the call, known from FINISH on, is an error.                  *)

Completes(c, s) ==
  /\ io = AtNext
  /\ outstanding[c] > 0
  /\ status[c] = s

ErrorOf(t) == [kind |-> "error", tag |-> t, value |-> None]
ClosedOf(t) == [kind |-> "closed", tag |-> t, value |-> None]

ProcessInit(c, bad) ==
  /\ Completes(c, "INIT")
  /\ refused' = [refused EXCEPT ![c] = bad]
  /\ IF bad THEN FinishCall(c) ELSE handleQueuedRequests(c)
  /\ UNCHANGED <<callbackVars, calls, memory, tagOf, accepted, qml, io, ops>>

\* Slip: a failed Write ends the call, as in ReaderWriterCallData.
ProcessWrite_Finish(c, bad) ==
  /\ Completes(c, "WRITE")
  /\ IF bad
       THEN Emit(<<ErrorOf(tagOf[c])>>) /\ FinishCall(c)
       ELSE UNCHANGED callbackVars /\ handleQueuedRequests(c)
  /\ UNCHANGED <<calls, memory, tagOf, refused, accepted, qml, io, ops>>

\* A failed Write is reported and the queue goes on.
ProcessWrite(c, bad) ==
  /\ Completes(c, "WRITE")
  /\ IF bad THEN Emit(<<ErrorOf(tagOf[c])>>) ELSE UNCHANGED callbackVars
  /\ handleQueuedRequests(c)
  /\ UNCHANGED <<calls, memory, tagOf, refused, accepted, qml, io, ops>>

\* Slip: the queue goes on after WritesDone.
ProcessDone_NoFinish(c, bad) ==
  /\ Completes(c, "DONE")
  /\ IF bad THEN Emit(<<ErrorOf(tagOf[c])>>) ELSE UNCHANGED callbackVars
  /\ handleQueuedRequests(c)
  /\ UNCHANGED <<calls, memory, tagOf, refused, accepted, qml, io, ops>>

ProcessDone(c, bad) ==
  /\ Completes(c, "DONE")
  /\ IF bad THEN Emit(<<ErrorOf(tagOf[c])>>) ELSE UNCHANGED callbackVars
  /\ FinishCall(c)
  /\ UNCHANGED <<calls, memory, tagOf, refused, accepted, qml, io, ops>>

\* The result of the call; gRPC does not report success for a call it could
\* not start.
ProcessFinish(c, bad) ==
  /\ Completes(c, "FINISH")
  /\ refused[c] => bad
  /\ outstanding' = [outstanding EXCEPT ![c] = @ - 1]
  /\ \/ bad /\ Emit(<<ErrorOf(tagOf[c])>>)
     \/ ~bad /\ \E v \in Payloads : Emit(<<DataOf(tagOf[c], v)>>)
  /\ io' = [pc |-> "erase", call |-> c]
  /\ UNCHANGED <<calls, memory, tagOf, status, requests, refused, accepted, handed, qml, ops>>

\* Slip: no closed signal.
deleteCall_Silent ==
  /\ io.pc = "erase"
  /\ calls' = [calls EXCEPT ![tagOf[io.call]] = NoCall]
  /\ io' = [io EXCEPT !.pc = "delete"]
  /\ UNCHANGED <<callbackVars, memory, tagOf, status, requests, outstanding, refused,
                 accepted, handed, qml, ops>>

\* WriterMethod::deleteCall(tag_), then mutex_ is released.
deleteCall ==
  /\ io.pc = "erase"
  /\ IF calls[tagOf[io.call]] = NoCall
       THEN UNCHANGED <<calls, callbackVars>>
       ELSE /\ calls' = [calls EXCEPT ![tagOf[io.call]] = NoCall]
            /\ Emit(<<ClosedOf(tagOf[io.call])>>)
  /\ io' = [io EXCEPT !.pc = "delete"]
  /\ UNCHANGED <<memory, tagOf, status, requests, outstanding, refused, accepted, handed, qml, ops>>

\* delete this
DeleteSelf ==
  /\ io.pc = "delete"
  /\ memory' = [memory EXCEPT ![io.call] = "freed"]
  /\ io' = AtNext
  /\ UNCHANGED <<callbackVars, calls, tagOf, status, requests, outstanding, refused,
                 accepted, handed, qml, ops>>

-----------------------------------------------------------------------------
QmlDeliver == qml = Idle /\ Deliver /\ UNCHANGED <<callVars, qml, io, ops>>

QmlNext ==
  \/ Call
  \/ \E t \in Tags : \E m \in Messages : BeginWrite(t, m)
  \/ \E t \in Tags : BeginEnd(t) \/ BeginTimeout(t) \/ BeginSetTimeout(t)
  \/ EndWrite
  \/ EndTimeout
  \/ QmlDeliver

Process(c) ==
  \E bad \in BOOLEAN :
    \/ ProcessInit(c, bad)
    \/ ProcessWrite(c, bad)
    \/ ProcessDone(c, bad)
    \/ ProcessFinish(c, bad)

IoNext == (\E c \in Calls : Process(c)) \/ deleteCall \/ DeleteSelf

Next == QmlNext \/ IoNext

Spec == Init /\ [][Next]_vars

\* gRPC completes every operation, the IO thread and the QML event loop keep
\* running.  That the program writes or ends is its own choice.
Fairness ==
  /\ \A c \in Calls : WF_vars(Process(c))
  /\ WF_vars(deleteCall) /\ WF_vars(DeleteSelf)
  /\ WF_vars(EndWrite) /\ WF_vars(EndTimeout)
  /\ WF_vars(QmlDeliver)

FairSpec == Spec /\ Fairness

-----------------------------------------------------------------------------
(* Properties.                                                             *)

\* The IO thread is past the last completion of call c.
Dying(c) == io # AtNext /\ io.call = c

\* gRPC's rule for one call object, "does not allow more than one request at
\* once" (writer.cpp:148): a live call has exactly one operation in flight,
\* unless it is FROZEN or about to be deleted, and no completion can arrive
\* for an object that was deleted.
GrpcContract ==
  /\ TypeOK
  /\ \A c \in Calls :
       outstanding[c] =
         IF memory[c] = "live" /\ status[c] # "FROZEN" /\ ~Dying(c) THEN 1 ELSE 0

\* The requests of a call form an OutgoingStream: gRPC is never given anything
\* after WritesDone, however often the program calls end() and write() around
\* it, and nothing that was not accepted before.
Stream == INSTANCE OutgoingStream WITH Streams <- Calls, Items <- Requests, End <- Null
ImplementsStream == Stream!Spec

\* The part of a request sequence up to and including the first Null.
UpToEnd(s) ==
  LET ends == {i \in 1..Len(s) : s[i] = Null}
  IN IF ends = {} THEN s ELSE SubSeq(s, 1, CHOOSE i \in ends : \A j \in ends : i <= j)

Answered(t) ==
  \/ \E i \in 1..Len(signals) : signals[i].tag = t /\ signals[i].kind = "data"
  \/ \E i \in 1..Len(heard[t]) : heard[t][i].kind = "data"

\* A response means that a call of that tag was ended and that gRPC took every
\* message accepted before end().
SuccessMeansSent ==
  \A t \in Tags : Answered(t) =>
    \E c \in Calls :
      /\ tagOf[c] = t
      /\ Null \in {accepted[c][i] : i \in 1..Len(accepted[c])}
      /\ handed[c] = UpToEnd(accepted[c])

\* The callback hears one result, a message or an error, however many signals
\* a failed Write, a failed WritesDone and Finish emit, and also when write()
\* or set timeout starts a second call object under the same tag.
OneResult ==
  \A t \in Tags : \A i, j \in 1..Len(heard[t]) :
    heard[t][i].kind \in {"data", "error"} /\ heard[t][j].kind \in {"data", "error"}
      => i = j

\* What the callback hears is one result, and a response is one to everything
\* the program sent.
ResultHonest == SuccessMeansSent /\ OneResult

\* The pointer that write(), writesDone() and the timeout accessors use after
\* releasing calls_mutex_ can dangle; it does so only for a call that gRPC
\* refused to start or that handed WritesDone to gRPC.
DanglingOnlyWhenOver ==
  Dangling => refused[qml.call] \/ Null \in {handed[qml.call][i] : i \in 1..Len(handed[qml.call])}

\* A call that accepted end() eventually has its callback forgotten, so that
\* callbackStorage does not grow.
EndedIsForgotten ==
  \A c \in Calls : \A t \in Tags :
    (tagOf[c] = t /\ \E i \in 1..Len(accepted[c]) : accepted[c][i] = Null)
      ~> (t \notin callbacks)
=============================================================================
